---- MODULE Spec2Model ----
(***************************************************************************)
(* Network_Discovery: the device registry (app.py) and the discovery run   *)
(* (discover_and_push.py).                                                 *)
(*                                                                         *)
(* The registry is two SQLite tables.  No statement of app.py deletes a    *)
(* row and both ids are AUTOINCREMENT, so a table is a sequence of rows    *)
(* whose index is the row's id.                                            *)
(***************************************************************************)
EXTENDS Integers, Sequences, FiniteSets, TLC

\* ------------------------------------------------------------------ bounds
MaxDevices == 2      \* rows the devices table may hold
MaxHistory == 3      \* rows the device_history table may hold
MaxTime == 2         \* values datetime.utcnow() / time.gmtime() may take
MaxInFlight == 2     \* write requests being handled at the same time

VARIABLES
    devices,      \* table devices: id |-> row
    history,      \* table device_history: id |-> row
    last,         \* the request handled last and its response
    reqs,         \* per request in flight: how far its handler has come
    db0,          \* the tables as they were before the requests in flight began
    futures,      \* discovery run: per address, what its work item came to
    collected,    \* discovery run: the addresses whose future the main loop has read
    discovered,   \* discovery run: the list `discovered`
    log,          \* discovery run: the addresses logged by logging.error, in order
    run,          \* discovery run: where scan_subnet_and_push stands
    posted,       \* discovery run: how many of `discovered` have been posted
    pushed,       \* discovery run: the counter `pushed`
    runs,         \* per run started: the addresses POSTed with success
    query,        \* the arguments of a call of categorize_device or discover_single
    answer        \* what the call returned

regVars == <<devices, history, last>>
concVars == <<reqs, db0>>
discVars == <<futures, collected, discovered, log, run, posted, pushed, runs>>
clsVars == <<query, answer>>
vars == <<regVars, concVars, discVars, clsVars>>

\* ------------------------------------------------------------------ inputs
NoTime == 0          \* DeviceIn.last_seen = None
NoRow == 0           \* cursor.fetchone() returned None
Times == 1..MaxTime

\* A string the code looks into (a hostname) is the sequence of its characters.
NoName == <<>>
Nas == <<"n", "a", "s">>

Keys == {<<"10.0.0.5", "A">>, <<"10.0.0.5", "B">>, <<"10.0.0.6", "A">>}

Observations ==
    { [hostname |-> NoName,    last_seen |-> 1, device_group |-> "Unknown", open_ports |-> ""],
      [hostname |-> Nas, last_seen |-> 2, device_group |-> "Server",  open_ports |-> "22"] }

Request(key, status, o) ==
    [ip |-> key[1], site |-> key[2], status |-> status, hostname |-> o.hostname,
     last_seen |-> o.last_seen, device_group |-> o.device_group,
     open_ports |-> o.open_ports]

\* The request bodies the clients send: for one key every status and
\* observation and a body that leaves last_seen out; one body for each of the
\* keys that differ from it in the site alone and in the address alone.
DeviceIn ==
    { Request(<<"10.0.0.5", "A">>, s, o) : s \in {"Up", "Down"}, o \in Observations }
    \cup { Request(<<"10.0.0.5", "A">>, "Up",
                   [hostname |-> NoName, last_seen |-> NoTime,
                    device_group |-> "Unknown", open_ports |-> ""]),
           Request(<<"10.0.0.5", "B">>, "Up",
                   [hostname |-> Nas, last_seen |-> 2,
                    device_group |-> "Server", open_ports |-> "22"]),
           Request(<<"10.0.0.6", "A">>, "Down",
                   [hostname |-> NoName, last_seen |-> 1,
                    device_group |-> "Unknown", open_ports |-> ""]) }

Min(S) == CHOOSE x \in S : \A y \in S : x <= y

\* ---------------------------------------------------------------- discovery
\* discover_and_push.py, lines 28-30 and 133.
SITE_NAME == "Home"
TARGET_PORTS == <<22, 80, 443, 21, 8080, 161, 5060>>
FALLBACK_PORTS == <<22, 80, 443, 161, 5060, 21>>

NumHosts == 2        \* addresses of the subnet that a run scans
MaxNameLen == 3      \* length of the generated hostnames given to the classifier

Hosts == 1..NumHosts
Address(h) == "192.168.0." \o ToString(h)

Ports == {22, 80, 443, 21, 8080, 161, 5060, 5061}

\* An argument that may be None: hostname of categorize_device.
None == [none |-> TRUE, s |-> <<>>]
Str(s) == [none |-> FALSE, s |-> s]
Truthy(v) == ~v.none /\ v.s # <<>>

\* str.lower() on the characters the hostnames here are written with.
LowerChar(c) ==
    CASE c = "W" -> "w" [] c = "E" -> "e" [] c = "B" -> "b" [] c = "S" -> "s"
      [] c = "R" -> "r" [] c = "V" -> "v" [] c = "C" -> "c" [] OTHER -> c

Lower(str) == [i \in DOMAIN str |-> LowerChar(str[i])]

\* Python's `sub in str`.
Contains(sub, str) ==
    \E i \in 1..(Len(str) - Len(sub) + 1) : SubSeq(str, i, i + Len(sub) - 1) = sub

\* Python's `p in open_ports` on a list.
InList(p, list) == \E i \in DOMAIN list : list[i] = p

\* Mutant of categorize_device: the hostname is looked at as it is written.
categorize_device_no_lower(ip, open_ports, hostname) ==
    LET h == IF Truthy(hostname) THEN hostname.s ELSE <<>>
    IN  IF \E p \in {161} : InList(p, open_ports) THEN "Switch/Network"
        ELSE IF \E p \in {5060, 5061} : InList(p, open_ports) THEN "VOIP"
        ELSE IF \/ InList(22, open_ports)
                \/ Contains(<<"s", "e", "r", "v", "e", "r">>, h)
                \/ Contains(<<"w", "e", "b">>, h) THEN "Server"
        ELSE IF \/ InList(80, open_ports) \/ InList(8080, open_ports)
                \/ InList(443, open_ports) THEN "Web/HTTP"
        ELSE "Unknown"

\* categorize_device, lines 109-121.
categorize_device(ip, open_ports, hostname) ==
    LET h == IF Truthy(hostname) THEN Lower(hostname.s) ELSE <<>>
    IN  IF \E p \in {161} : InList(p, open_ports) THEN "Switch/Network"
        ELSE IF \E p \in {5060, 5061} : InList(p, open_ports) THEN "VOIP"
        ELSE IF \/ InList(22, open_ports)
                \/ Contains(<<"s", "e", "r", "v", "e", "r">>, h)
                \/ Contains(<<"w", "e", "b">>, h) THEN "Server"
        ELSE IF \/ InList(80, open_ports) \/ InList(8080, open_ports)
                \/ InList(443, open_ports) THEN "Web/HTTP"
        ELSE "Unknown"

\* What one probe of a port brings back: nothing within the timeout, a packet
\* with a TCP layer and its flags, a packet without one, or an exception of sr1.
NoReply == [kind |-> "none", flags |-> 0]
SynAck == [kind |-> "tcp", flags |-> 18]
RstAck == [kind |-> "tcp", flags |-> 20]
Raises == [kind |-> "error", flags |-> 0]

RECURSIVE BitAnd(_, _)
\* Python's a & b.
BitAnd(a, b) ==
    IF a = 0 \/ b = 0 THEN 0
    ELSE (a % 2) * (b % 2) + 2 * BitAnd(a \div 2, b \div 2)

\* resp is not None and resp.haslayer(TCP) and flags & 0x12
Answered(resp) == resp.kind = "tcp" /\ BitAnd(resp.flags, 18) # 0

\* is_host_up_icmp, lines 49-60: TRUE, FALSE, or PermissionError raised again.
is_host_up_icmp(icmp) ==
    CASE icmp = "reply" -> [exc |-> "", up |-> TRUE]
      [] icmp = "denied" -> [exc |-> "PermissionError", up |-> FALSE]
      [] OTHER -> [exc |-> "", up |-> FALSE]

RECURSIVE is_host_up_tcp(_, _)
\* is_host_up_tcp, lines 63-78: the first port that answers makes the host up;
\* an exception on any port before it ends the loop with False.
is_host_up_tcp(net, ports) ==
    IF ports = <<>> THEN FALSE
    ELSE LET resp == net[Head(ports)]
         IN  IF resp.kind = "error" THEN FALSE
             ELSE IF Answered(resp) THEN TRUE
             ELSE is_host_up_tcp(net, Tail(ports))

RECURSIVE scan_ports_syn(_, _)
\* scan_ports_syn, lines 81-98: an exception on a port is logged and the port
\* is passed over.
scan_ports_syn(net, ports) ==
    IF ports = <<>> THEN <<>>
    ELSE LET resp == net[Head(ports)]
             rest == scan_ports_syn(net, Tail(ports))
         IN  IF resp.kind # "error" /\ Answered(resp) THEN <<Head(ports)>> \o rest
             ELSE rest

\* get_hostname, lines 101-106: socket.herror, socket.gaierror and TimeoutError
\* give ""; any other exception of gethostbyaddr leaves the function.
get_hostname(dns) ==
    CASE dns.kind = "name" -> [exc |-> "", name |-> dns.name]
      [] dns.kind \in {"herror", "gaierror", "timeout"} -> [exc |-> "", name |-> NoName]
      [] OTHER -> [exc |-> "OSError", name |-> NoName]

RECURSIVE Join(_)
\* ",".join(str(p) for p in open_ports)
Join(open_ports) ==
    IF open_ports = <<>> THEN ""
    ELSE IF Len(open_ports) = 1 THEN ToString(Head(open_ports))
    ELSE ToString(Head(open_ports)) \o "," \o Join(Tail(open_ports))

NoDevice ==
    [ip |-> "", site |-> "", status |-> "", hostname |-> NoName, last_seen |-> NoTime,
     device_group |-> "", open_ports |-> ""]

\* What a work item comes to: the dict it returned, None, or the exception it
\* raised; `calls` lists the primitives it called, in order.
Returned(device, calls) == [kind |-> "record", device |-> device, exc |-> "", calls |-> calls]
ReturnedNone(calls) == [kind |-> "none", device |-> NoDevice, exc |-> "", calls |-> calls]
Raised(exc, calls) == [kind |-> "raised", device |-> NoDevice, exc |-> exc, calls |-> calls]
Pending == [kind |-> "pending", device |-> NoDevice, exc |-> "", calls |-> <<>>]

\* Mutant of discover_single: a host that fails both checks is reported as a
\* record with status Down.
discover_single_reports_down(ip, env, now) ==
    LET icmp == is_host_up_icmp(env.icmp)
    IN  IF icmp.exc # "" THEN Raised(icmp.exc, <<"icmp">>)
        ELSE LET up == IF ~icmp.up THEN is_host_up_tcp(env.net, FALLBACK_PORTS) ELSE TRUE
                 probes == IF ~icmp.up THEN <<"icmp", "tcp">> ELSE <<"icmp">>
                 open_ports == scan_ports_syn(env.net, TARGET_PORTS)
                 hostname == get_hostname(env.dns)
             IN  IF hostname.exc # ""
                 THEN Raised(hostname.exc, probes \o <<"scan", "dns">>)
                 ELSE Returned(
                        [ip |-> ip, site |-> SITE_NAME,
                         hostname |-> hostname.name,
                         status |-> IF up THEN "Up" ELSE "Down",
                         last_seen |-> now,
                         device_group |->
                             categorize_device(ip, open_ports, Str(hostname.name)),
                         open_ports |-> Join(open_ports)],
                        probes \o <<"scan", "dns", "classify">>)

\* discover_single, lines 124-153, on the network env at the time now.
discover_single(ip, env, now) ==
    LET icmp == is_host_up_icmp(env.icmp)
    IN  IF icmp.exc # "" THEN Raised(icmp.exc, <<"icmp">>)
        ELSE LET up == IF ~icmp.up THEN is_host_up_tcp(env.net, FALLBACK_PORTS) ELSE TRUE
                 probes == IF ~icmp.up THEN <<"icmp", "tcp">> ELSE <<"icmp">>
             IN  IF ~up THEN ReturnedNone(probes)
                 ELSE LET open_ports == scan_ports_syn(env.net, TARGET_PORTS)
                          hostname == get_hostname(env.dns)
                      IN  IF hostname.exc # ""
                          THEN Raised(hostname.exc, probes \o <<"scan", "dns">>)
                          ELSE Returned(
                                 [ip |-> ip, site |-> SITE_NAME,
                                  hostname |-> hostname.name, status |-> "Up",
                                  last_seen |-> now,
                                  device_group |->
                                      categorize_device(ip, open_ports, Str(hostname.name)),
                                  open_ports |-> Join(open_ports)],
                                 probes \o <<"scan", "dns", "classify">>)

\* The networks a host is scanned on.
Quiet == [p \in Ports |-> NoReply]

Scenarios ==
    { \* nothing answers
      [icmp |-> "none", net |-> Quiet, dns |-> [kind |-> "herror"]],
      \* answers the echo request, ssh open, a name
      [icmp |-> "reply", net |-> [Quiet EXCEPT ![22] = SynAck],
       dns |-> [kind |-> "name", name |-> Nas]],
      \* echo filtered, web ports open, ssh refused, no name
      [icmp |-> "none",
       net |-> [Quiet EXCEPT ![22] = RstAck, ![80] = SynAck, ![443] = SynAck],
       dns |-> [kind |-> "herror"]],
      \* no privilege to send the echo request
      [icmp |-> "denied", net |-> Quiet, dns |-> [kind |-> "herror"]],
      \* answers, one port probe fails, the resolver fails with an OSError
      [icmp |-> "reply", net |-> [Quiet EXCEPT ![161] = SynAck, ![8080] = Raises],
       dns |-> [kind |-> "oserror"]],
      \* the echo request fails, the first fallback probe fails
      [icmp |-> "error", net |-> [Quiet EXCEPT ![22] = Raises, ![80] = SynAck],
       dns |-> [kind |-> "herror"]],
      \* answers, one port probe fails, http open, the resolver times out
      [icmp |-> "reply", net |-> [Quiet EXCEPT ![22] = Raises, ![80] = SynAck],
       dns |-> [kind |-> "timeout"]] }

\* No run of discover_and_push.py has started.
DiscIdle ==
    /\ futures = [h \in Hosts |-> Pending]
    /\ collected = {}
    /\ discovered = <<>>
    /\ log = <<>>
    /\ run = "idle"
    /\ posted = 0
    /\ pushed = 0
    /\ runs = <<>>

NoQuery == [ip |-> "", open_ports |-> <<>>, hostname |-> None]

\* categorize_device has not been called.
ClsIdle ==
    /\ query = NoQuery
    /\ answer = ""

\* ---------------------------------------------------------------- registry
\* The devices row the INSERT statements of add_device and upsert_device write.
DeviceRow(device, last_seen) ==
    [ip |-> device.ip, hostname |-> device.hostname, status |-> device.status,
     last_seen |-> last_seen, device_group |-> device.device_group,
     open_ports |-> device.open_ports, site |-> device.site]

HistoryRow(device_id, timestamp, status, message) ==
    [device_id |-> device_id, timestamp |-> timestamp, status |-> status,
     message |-> message]

\* f"Status changed from {old_status} → {new_status}"
StatusChanged(old_status, new_status) ==
    <<"Status changed from ", old_status, " → ", new_status>>

\* Mutant of LastSeen: the time of the request, whatever the body gives.
LastSeenAlwaysNow(device) ==
    Times

\* last_seen = device.last_seen or datetime.utcnow().isoformat(): the values
\* last_seen may take (the clock is read only when the body gives none).
LastSeen(device) ==
    IF device.last_seen # NoTime THEN {device.last_seen} ELSE Times

\* Mutant of SelectIdStatus: the lookup leaves the site out of the key.
SelectIdStatusByIp(devs, ip, site) ==
    LET m == {i \in DOMAIN devs : devs[i].ip = ip}
    IN  IF m = {} THEN [id |-> NoRow, status |-> ""]
        ELSE [id |-> Min(m), status |-> devs[Min(m)].status]

\* SELECT id, status FROM devices WHERE ip = ? AND site = ?  ... fetchone():
\* the table is scanned in rowid order, so the first match has the least id.
SelectIdStatus(devs, ip, site) ==
    LET m == {i \in DOMAIN devs : devs[i].ip = ip /\ devs[i].site = site}
    IN  IF m = {} THEN [id |-> NoRow, status |-> ""]
        ELSE [id |-> Min(m), status |-> devs[Min(m)].status]

\* Mutant of UpsertCommit: an update logs a history row whether or not the
\* status differs.
UpsertCommitAlwaysLogs(devs, hist, device, row, last_seen) ==
    IF row.id # NoRow
    THEN [devices |->
             [devs EXCEPT ![row.id] =
                 [@ EXCEPT !.hostname = device.hostname,
                           !.status = device.status,
                           !.last_seen = last_seen,
                           !.device_group = device.device_group,
                           !.open_ports = device.open_ports]],
          history |->
             Append(hist, HistoryRow(row.id, last_seen, device.status,
                                     StatusChanged(row.status, device.status)))]
    ELSE [devices |-> Append(devs, DeviceRow(device, last_seen)),
          history |-> Append(hist, HistoryRow(Len(devs) + 1, last_seen, device.status,
                                              <<"Device discovered">>))]

\* Mutant of UpsertCommit: the history row of a status change records the
\* status the device had, not the one it has now.
UpsertCommitLogsOld(devs, hist, device, row, last_seen) ==
    IF row.id # NoRow
    THEN [devices |->
             [devs EXCEPT ![row.id] =
                 [@ EXCEPT !.hostname = device.hostname,
                           !.status = device.status,
                           !.last_seen = last_seen,
                           !.device_group = device.device_group,
                           !.open_ports = device.open_ports]],
          history |->
             IF row.status # device.status
             THEN Append(hist, HistoryRow(row.id, last_seen, row.status,
                                          StatusChanged(row.status, device.status)))
             ELSE hist]
    ELSE [devices |-> Append(devs, DeviceRow(device, last_seen)),
          history |-> Append(hist, HistoryRow(Len(devs) + 1, last_seen, device.status,
                                              <<"Device discovered">>))]

\* Mutant of UpsertCommit: a status change is written over the device's
\* latest history row (UPDATE device_history) where the code inserts a row.
UpsertCommitRewritesHistory(devs, hist, device, row, last_seen) ==
    IF row.id # NoRow
    THEN LET own == {i \in DOMAIN hist : hist[i].device_id = row.id}
             entry == HistoryRow(row.id, last_seen, device.status,
                                 StatusChanged(row.status, device.status))
         IN  [devices |->
                 [devs EXCEPT ![row.id] =
                     [@ EXCEPT !.hostname = device.hostname,
                               !.status = device.status,
                               !.last_seen = last_seen,
                               !.device_group = device.device_group,
                               !.open_ports = device.open_ports]],
              history |->
                 IF row.status = device.status THEN hist
                 ELSE IF own = {} THEN Append(hist, entry)
                 ELSE [hist EXCEPT ![CHOOSE i \in own : \A j \in own : j <= i] = entry]]
    ELSE [devices |-> Append(devs, DeviceRow(device, last_seen)),
          history |-> Append(hist, HistoryRow(Len(devs) + 1, last_seen, device.status,
                                              <<"Device discovered">>))]

\* upsert_device from `if row:` to conn.commit(): one transaction.
UpsertCommit(devs, hist, device, row, last_seen) ==
    IF row.id # NoRow
    THEN LET device_id == row.id
             old_status == row.status
             new_status == device.status
         IN  [devices |->
                 [devs EXCEPT ![device_id] =
                     [@ EXCEPT !.hostname = device.hostname,
                               !.status = new_status,
                               !.last_seen = last_seen,
                               !.device_group = device.device_group,
                               !.open_ports = device.open_ports]],
              history |->
                 IF old_status # new_status
                 THEN Append(hist, HistoryRow(device_id, last_seen, new_status,
                                              StatusChanged(old_status, new_status)))
                 ELSE hist]
    ELSE LET device_id == Len(devs) + 1
         IN  [devices |-> Append(devs, DeviceRow(device, last_seen)),
              history |-> Append(hist, HistoryRow(device_id, last_seen, device.status,
                                                  <<"Device discovered">>))]

\* Mutant of AddInsert: INSERT OR REPLACE on a table that is unique in ip, so
\* the row of another site with the same address is written over.
AddInsertReplaceByIp(devs, device, last_seen) ==
    LET m == {i \in DOMAIN devs : devs[i].ip = device.ip}
    IN  IF m = {} THEN Append(devs, DeviceRow(device, last_seen))
        ELSE [devs EXCEPT ![Min(m)] = DeviceRow(device, last_seen)]

\* add_device: the INSERT into devices and its commit.
AddInsert(devs, device, last_seen) ==
    Append(devs, DeviceRow(device, last_seen))

\* add_device: the INSERT into device_history and its commit.
AddHistory(hist, did, device, last_seen) ==
    Append(hist, HistoryRow(did, last_seen, device.status, <<"Device added manually">>))

InBounds(devs, hist) ==
    Len(devs) <= MaxDevices /\ Len(hist) <= MaxHistory

\* What `last` records of a request: the handler, the body or path parameter
\* it was given, the devices id it worked on, the HTTP status and body it
\* returned, the number of device_history rows it wrote, and whether it is a
\* repetition of the request before it.
Response(op, device, id, code, body, added, again) ==
    [op |-> op, rec |-> device, id |-> id, code |-> code, body |-> body,
     added |-> added, again |-> again]

\* POST /devices/upsert/ handled by one process from start to end (the handler
\* is `async def` and never awaits).
upsert_device(device) ==
    \E last_seen \in LastSeen(device) :
        LET row == SelectIdStatus(devices, device.ip, device.site)
            out == UpsertCommit(devices, history, device, row, last_seen)
        IN  /\ devices' = out.devices
            /\ history' = out.history
            /\ last' = Response("upsert", device, row.id, 200, <<>>,
                                Len(out.history) - Len(history),
                                last.op = "upsert" /\ last.rec = device)

\* POST /devices/ handled by one process from start to end.
add_device(device) ==
    \E last_seen \in LastSeen(device) :
        LET devs == AddInsert(devices, device, last_seen)
            did == Len(devs)
            hist == AddHistory(history, did, device, last_seen)
        IN  /\ devices' = devs
            /\ history' = hist
            /\ last' = Response("add", device, did, 201, <<>>, 1, FALSE)

\* Mutant of GetDeviceResult: a missing row is answered with an empty body.
GetDeviceResultNoCheck(devs, device_id) ==
    IF device_id \in DOMAIN devs
    THEN [code |-> 200, body |-> <<devs[device_id]>>]
    ELSE [code |-> 200, body |-> <<>>]

\* GET /device/{device_id}
GetDeviceResult(devs, device_id) ==
    IF device_id \in DOMAIN devs
    THEN [code |-> 200, body |-> <<devs[device_id]>>]
    ELSE [code |-> 404, body |-> <<>>]

get_device(device_id) ==
    LET res == GetDeviceResult(devices, device_id)
    IN  /\ last' = Response("get_device", NoDevice, device_id, res.code, res.body, 0, FALSE)
        /\ UNCHANGED <<devices, history>>

\* Mutant of HistoryOrders: the query has no ORDER BY, and SQLite gives the
\* rows in rowid order.
HistoryOrdersByRowid(hist, device_id) ==
    LET m == {i \in DOMAIN hist : hist[i].device_id = device_id}
        n == Cardinality(m)
    IN  { o \in [1..n -> m] : \A i \in 1..n : \A j \in 1..n : i < j => o[i] < o[j] }

\* SELECT timestamp, status, message FROM device_history WHERE device_id = ?
\* ORDER BY timestamp DESC: every order of the matching rows in which the
\* timestamps do not increase (SQL leaves the order of equal timestamps open).
HistoryOrders(hist, device_id) ==
    LET m == {i \in DOMAIN hist : hist[i].device_id = device_id}
        n == Cardinality(m)
    IN  { o \in [1..n -> m] :
            /\ \A i, j \in 1..n : i # j => o[i] # o[j]
            /\ \A i \in 1..n : \A j \in 1..n :
                 i < j => hist[o[i]].timestamp >= hist[o[j]].timestamp }

HistoryBody(hist, order) ==
    [i \in DOMAIN order |->
        [timestamp |-> hist[order[i]].timestamp, status |-> hist[order[i]].status,
         message |-> hist[order[i]].message]]

\* GET /history/{device_id}
get_history(device_id) ==
    \E order \in HistoryOrders(history, device_id) :
        /\ last' = Response("get_history", NoDevice, device_id, 200,
                            HistoryBody(history, order), 0, FALSE)
        /\ UNCHANGED <<devices, history>>

\* SELECT * FROM devices [WHERE site = ?] ORDER BY last_seen DESC: every order
\* of the matching rows in which last_seen does not increase (`if site:` takes
\* "" as no filter).
DeviceOrders(devs, site) ==
    LET m == {i \in DOMAIN devs : site = "" \/ devs[i].site = site}
        n == Cardinality(m)
    IN  { o \in [1..n -> m] :
            /\ \A i, j \in 1..n : i # j => o[i] # o[j]
            /\ \A i \in 1..n : \A j \in 1..n :
                 i < j => devs[o[i]].last_seen >= devs[o[j]].last_seen }

\* GET /devices/?limit=&site=: the first `limit` rows of the order.
get_devices(limit, site) ==
    \E order \in DeviceOrders(devices, site) :
        /\ last' = Response("get_devices", NoDevice, NoRow, 200,
                            [i \in 1..Min({limit, Len(order)}) |-> devices[order[i]]],
                            0, FALSE)
        /\ UNCHANGED <<devices, history>>

DeviceIds == 1..(MaxDevices + 1)

\* init_db on a fresh devices.db: both tables exist and are empty.
init_db ==
    /\ devices = <<>>
    /\ history = <<>>

InFlight == 1..MaxInFlight

NoReqs == [w \in InFlight |-> [pc |-> "idle"]]

NoResponse == Response("none", NoDevice, NoRow, 0, <<>>, 0, FALSE)

\* No request is in flight.
ConcIdle ==
    /\ reqs = NoReqs
    /\ db0 = [devices |-> <<>>, history |-> <<>>]

\* The registry serving write requests one at a time: each handler is
\* `async def` and never awaits, so one server process runs it from start to end.
Init ==
    /\ init_db
    /\ last = NoResponse
    /\ ConcIdle
    /\ DiscIdle
    /\ ClsIdle

Next ==
    \/ \E device \in DeviceIn :
          upsert_device(device) /\ InBounds(devices', history')
            /\ UNCHANGED <<concVars, discVars, clsVars>>
    \/ \E device \in DeviceIn :
          add_device(device) /\ InBounds(devices', history')
            /\ UNCHANGED <<concVars, discVars, clsVars>>

Spec == Init /\ [][Next]_vars

\* The registry serving write and read requests one at a time.
QueryDeviceIn ==
    { d \in DeviceIn :
        /\ d.last_seen # NoTime
        /\ d.site = "A"
        /\ (d.ip = "10.0.0.6" \/ ((d.status = "Up") <=> (d.hostname = NoName))) }

NextQuery ==
    \/ \E device \in QueryDeviceIn :
          upsert_device(device) /\ InBounds(devices', history')
            /\ UNCHANGED <<concVars, discVars, clsVars>>
    \/ \E device \in QueryDeviceIn :
          add_device(device) /\ InBounds(devices', history')
            /\ UNCHANGED <<concVars, discVars, clsVars>>
    \/ \E device_id \in DeviceIds :
          get_device(device_id) /\ UNCHANGED <<concVars, discVars, clsVars>>
    \/ \E device_id \in DeviceIds :
          get_history(device_id) /\ UNCHANGED <<concVars, discVars, clsVars>>
    \/ \E limit \in {1, 50}, site \in {"", "A"} :
          get_devices(limit, site) /\ UNCHANGED <<concVars, discVars, clsVars>>

SpecQuery == Init /\ [][NextQuery]_vars
\* ------------------------------------------------------- a discovery run
\* scan_subnet_and_push.  The pool runs the work items side by side; a work
\* item shares no data with another, so each is one step.
WorkItem(h) ==
    /\ run = "scanning"
    /\ futures[h].kind = "pending"
    /\ \E env \in Scenarios, now \in Times :
          futures' = [futures EXCEPT ![h] = discover_single(Address(h), env, now)]
    /\ UNCHANGED <<collected, discovered, log, run, posted, pushed, runs,
                   regVars, concVars, clsVars>>

\* Mutant of Gathered: future.result() is called outside any try, so the
\* exception of a work item leaves scan_subnet_and_push.
GatheredNoTry(disc, lg, h, future) ==
    CASE future.kind = "record" ->
            [discovered |-> Append(disc, future.device), log |-> lg, run |-> "scanning"]
      [] future.kind = "raised" ->
            [discovered |-> disc, log |-> lg, run |-> "aborted"]
      [] OTHER ->
            [discovered |-> disc, log |-> lg, run |-> "scanning"]

\* Lines 182-188, the body of the as_completed loop for one finished future:
\* a dict is appended, None is dropped, an Exception is logged with the address.
Gathered(disc, lg, h, future) ==
    CASE future.kind = "record" ->
            [discovered |-> Append(disc, future.device), log |-> lg, run |-> "scanning"]
      [] future.kind = "raised" ->
            [discovered |-> disc, log |-> Append(lg, Address(h)), run |-> "scanning"]
      [] OTHER ->
            [discovered |-> disc, log |-> lg, run |-> "scanning"]

\* as_completed hands the main thread a finished future it has not read yet.
Collect(h) ==
    /\ run = "scanning"
    /\ futures[h].kind # "pending"
    /\ h \notin collected
    /\ LET out == Gathered(discovered, log, h, futures[h])
       IN  /\ discovered' = out.discovered
           /\ log' = out.log
           /\ run' = out.run
    /\ collected' = collected \cup {h}
    /\ UNCHANGED <<futures, posted, pushed, runs, regVars, concVars, clsVars>>

\* Mutant of Joined: the posting loop begins while futures are still unread,
\* as it would if it stood inside the as_completed loop.
JoinedEarly ==
    /\ run = "scanning"
    /\ run' = "posting"
    /\ UNCHANGED <<futures, collected, discovered, log, posted, pushed, runs,
                   regVars, concVars, clsVars>>

\* Lines 189-192: every future has been read, the pool is shut down, and the
\* posting loop begins.
Joined ==
    /\ run = "scanning"
    /\ collected = Hosts
    /\ run' = "posting"
    /\ UNCHANGED <<futures, collected, discovered, log, posted, pushed, runs,
                   regVars, concVars, clsVars>>

\* Lines 193-196 with post_device: the next dict is posted to API_ENDPOINT,
\* which is POST /devices/, served by add_device; 201 counts as pushed.
PostCreated ==
    /\ run = "posting"
    /\ posted < Len(discovered)
    /\ add_device(discovered[posted + 1])
    /\ posted' = posted + 1
    /\ pushed' = pushed + 1
    /\ runs' = [runs EXCEPT ![Len(runs)] = @ \cup {discovered[posted + 1].ip}]
    /\ UNCHANGED <<futures, collected, discovered, log, run, concVars, clsVars>>

\* Mutant of PostFailed: post_device has no try/except, so a request that
\* raises leaves scan_subnet_and_push and the run ends in __main__'s handler.
PostFailedRaises ==
    /\ run = "posting"
    /\ posted < Len(discovered)
    /\ run' = "aborted"
    /\ UNCHANGED <<futures, collected, discovered, log, posted, pushed, runs,
                   regVars, concVars, clsVars>>

\* post_device returns False: the request raised or the status was not 200/201.
PostFailed ==
    /\ run = "posting"
    /\ posted < Len(discovered)
    /\ posted' = posted + 1
    /\ UNCHANGED <<futures, collected, discovered, log, run, pushed, runs,
                   regVars, concVars, clsVars>>

\* Line 198: the loop is over and the counts are logged.
Finished ==
    /\ run = "posting"
    /\ posted = Len(discovered)
    /\ run' = "done"
    /\ UNCHANGED <<futures, collected, discovered, log, posted, pushed, runs,
                   regVars, concVars, clsVars>>

\* scan_subnet_and_push has submitted one work item per address.
InitDisc ==
    /\ init_db
    /\ last = NoResponse
    /\ ConcIdle
    /\ ClsIdle
    /\ futures = [h \in Hosts |-> Pending]
    /\ collected = {}
    /\ discovered = <<>>
    /\ log = <<>>
    /\ run = "scanning"
    /\ posted = 0
    /\ pushed = 0
    /\ runs = <<{}>>

NextDisc ==
    \/ \E h \in Hosts : WorkItem(h)
    \/ \E h \in Hosts : Collect(h)
    \/ Joined
    \/ PostCreated
    \/ PostFailed
    \/ Finished

SpecDisc == InitDisc /\ [][NextDisc]_vars

\* The run when every probe and every request returns within its timeout
\* (sr1 and requests.post are called with one): the pool runs every work item
\* it was given, and the main thread goes on whenever it has something to do.
SpecDiscFair ==
    /\ SpecDisc
    /\ \A h \in Hosts : WF_vars(WorkItem(h))
    /\ WF_vars(\E h \in Hosts : Collect(h))
    /\ WF_vars(Joined)
    /\ WF_vars(PostCreated \/ PostFailed)
    /\ WF_vars(Finished)

\* ---------------------------------------------------------- the classifier
RECURSIVE Strings(_, _)
\* The strings over the characters chars of length at most n.
Strings(chars, n) ==
    IF n = 0 THEN {<<>>}
    ELSE LET shorter == Strings(chars, n - 1)
         IN  shorter \cup {Append(str, c) : str \in shorter, c \in chars}

\* The hostnames the classifier is tried on.
Hostnames ==
    Strings({"w", "e", "b", "W"}, MaxNameLen)
    \cup { Nas,
           <<"s", "e", "r", "v", "e", "r">>,
           <<"S", "E", "R", "V", "E", "R", "1">>,
           <<"s", "e", "r", "v", "e">>,
           <<"w", "e", "b", "-", "s", "e", "r", "v", "e", "r", "-", "1">>,
           <<"C", "a", "m", "W", "e", "B">> }

\* A list of ports in the order scan_ports_syn tries them (5061 is no target
\* port; categorize_device asks for it all the same).
PortList(open) ==
    SelectSeq(TARGET_PORTS \o <<5061>>, LAMBDA p : p \in open)

Queries ==
    { [ip |-> Address(1), open_ports |-> PortList(open), hostname |-> h] :
        open \in SUBSET Ports, h \in {None} \cup {Str(n) : n \in Hostnames} }

InitClassify ==
    /\ init_db
    /\ last = NoResponse
    /\ ConcIdle
    /\ DiscIdle
    /\ query \in Queries
    /\ answer = ""

Categorize ==
    /\ answer = ""
    /\ answer' = categorize_device(query.ip, query.open_ports, query.hostname)
    /\ UNCHANGED <<query, regVars, concVars, discVars>>

NextClassify == Categorize

SpecClassify == InitClassify /\ [][NextClassify]_vars

\* ------------------------------------------------- one host, every network
\* discover_single on its own.  The echo request is answered, unanswered,
\* fails, or is denied; ports 22, 80 and 161 each are silent, answer SYN/ACK,
\* answer RST/ACK, or make sr1 raise; the reverse lookup gives a name or ends
\* in one of the exceptions gethostbyaddr has.
Networks ==
    { [icmp |-> i, net |-> [Quiet EXCEPT ![22] = a, ![80] = b, ![161] = c],
       dns |-> d] :
        i \in {"reply", "none", "error", "denied"},
        a \in {NoReply, SynAck, RstAck, Raises},
        b \in {NoReply, SynAck, RstAck, Raises},
        c \in {NoReply, SynAck, RstAck, Raises},
        d \in {[kind |-> "name", name |-> Nas], [kind |-> "herror"],
               [kind |-> "gaierror"], [kind |-> "timeout"], [kind |-> "oserror"]} }

InitProbe ==
    /\ init_db
    /\ last = NoResponse
    /\ ConcIdle
    /\ DiscIdle
    /\ query \in {[ip |-> Address(1), env |-> env, now |-> now] :
                     env \in Networks, now \in Times}
    /\ answer = Pending

Probe ==
    /\ answer = Pending
    /\ answer' = discover_single(query.ip, query.env, query.now)
    /\ UNCHANGED <<query, regVars, concVars, discVars>>

NextProbe == Probe

SpecProbe == InitProbe /\ [][NextProbe]_vars

\* ------------------------------------------ write requests that overlap
\* get_db_connection opens a connection of its own for every request and no
\* handler takes a lock, so requests served by different server processes (or
\* threads) on the same devices.db interleave at their statements.  The SELECT
\* of upsert_device runs outside any transaction (sqlite3 opens one only
\* before the first INSERT/UPDATE); what follows, up to conn.commit(), is one
\* transaction.  add_device commits twice.

\* The bodies of the overlapping requests: those that carry their last_seen.
ConcDeviceIn == {d \in DeviceIn : d.last_seen # NoTime}

\* The tables a first upsert leaves behind.
Seeded(device) ==
    UpsertCommit(<<>>, <<>>, device, [id |-> NoRow, status |-> ""], device.last_seen)

InitConc ==
    /\ \E seed \in {[devices |-> <<>>, history |-> <<>>]}
                   \cup {Seeded(d) : d \in {e \in ConcDeviceIn : e.site = "A" /\ e.hostname = Nas}} :
          /\ devices = seed.devices
          /\ history = seed.history
          /\ db0 = seed
    /\ last = NoResponse
    /\ reqs = NoReqs
    /\ DiscIdle
    /\ ClsIdle

\* upsert_device, lines 102-108: last_seen is fixed and the row is looked up.
UpsertSelect(w, device) ==
    /\ reqs[w].pc = "idle"
    /\ reqs' = [reqs EXCEPT ![w] =
                  [pc |-> "selected", op |-> "upsert", rec |-> device,
                   last_seen |-> device.last_seen,
                   row |-> SelectIdStatus(devices, device.ip, device.site)]]
    /\ UNCHANGED <<devices, history, last, db0, discVars, clsVars>>

\* upsert_device, lines 110-145: the update or insert, from the row looked up.
UpsertWrite(w) ==
    /\ reqs[w].pc = "selected"
    /\ LET out == UpsertCommit(devices, history, reqs[w].rec, reqs[w].row,
                               reqs[w].last_seen)
       IN  /\ InBounds(out.devices, out.history)
           /\ devices' = out.devices
           /\ history' = out.history
    /\ reqs' = [reqs EXCEPT ![w] = [pc |-> "done", op |-> "upsert", rec |-> @.rec,
                                    last_seen |-> @.last_seen, row |-> @.row]]
    /\ UNCHANGED <<last, db0, discVars, clsVars>>

\* add_device, lines 76-84: the devices row is inserted and committed.
AddInsertStep(w, device) ==
    /\ reqs[w].pc = "idle"
    /\ InBounds(AddInsert(devices, device, device.last_seen), history)
    /\ devices' = AddInsert(devices, device, device.last_seen)
    /\ reqs' = [reqs EXCEPT ![w] =
                  [pc |-> "inserted", op |-> "add", rec |-> device,
                   last_seen |-> device.last_seen,
                   row |-> [id |-> Len(devices'), status |-> device.status]]]
    /\ UNCHANGED <<history, last, db0, discVars, clsVars>>

\* add_device, lines 86-93: the history row is inserted and committed.
AddHistoryStep(w) ==
    /\ reqs[w].pc = "inserted"
    /\ InBounds(devices, AddHistory(history, reqs[w].row.id, reqs[w].rec, reqs[w].last_seen))
    /\ history' = AddHistory(history, reqs[w].row.id, reqs[w].rec, reqs[w].last_seen)
    /\ reqs' = [reqs EXCEPT ![w] = [pc |-> "done", op |-> "add", rec |-> @.rec,
                                    last_seen |-> @.last_seen, row |-> @.row]]
    /\ UNCHANGED <<devices, last, db0, discVars, clsVars>>

NextConc ==
    \/ \E w \in InFlight, device \in ConcDeviceIn : UpsertSelect(w, device)
    \/ \E w \in InFlight : UpsertWrite(w)
    \/ \E w \in InFlight, device \in ConcDeviceIn : AddInsertStep(w, device)
    \/ \E w \in InFlight : AddHistoryStep(w)

SpecConc == InitConc /\ [][NextConc]_vars

\* ------------------------------------------------ a run that is interrupted
\* Lines 209-212: KeyboardInterrupt is raised in the main thread, in the
\* as_completed loop or in the posting loop.  No handler of
\* scan_subnet_and_push catches it (post_device catches Exception only), so it
\* leaves the function and __main__ logs "User interrupted".
Interrupt ==
    /\ run \in {"scanning", "posting"}
    /\ run' = "interrupted"
    /\ UNCHANGED <<futures, collected, discovered, log, posted, pushed, runs,
                   regVars, concVars, clsVars>>

\* Line 179: on the way out the `with` block waits for the pool, whose threads
\* go on with the work items they hold; nobody reads their futures.
Drain(h) ==
    /\ run = "interrupted"
    /\ futures[h].kind = "pending"
    /\ \E env \in Scenarios, now \in Times :
          futures' = [futures EXCEPT ![h] = discover_single(Address(h), env, now)]
    /\ UNCHANGED <<collected, discovered, log, run, posted, pushed, runs,
                   regVars, concVars, clsVars>>

NextInt ==
    \/ \E h \in Hosts : WorkItem(h)
    \/ \E h \in Hosts : Collect(h)
    \/ Joined
    \/ PostCreated
    \/ PostFailed
    \/ Finished
    \/ Interrupt
    \/ \E h \in Hosts : Drain(h)

SpecInt == InitDisc /\ [][NextInt]_vars

\* ------------------------------------------------ successive discovery runs
\* app.py starts discover_and_push.py every 10 minutes (run_discovery_job);
\* here a run starts when the run before it has ended.  A run is taken to read
\* the clock once, and a later run reads a later time.

\* The networks of these runs: a host is silent, or answers with ssh open and
\* a name, or the echo request is denied.
RunScenarios == {env \in Scenarios : env.net = Quiet \/ env.dns.kind = "name"}

\* What the registry holds before the first run: nothing, or a device of
\* another site that has the address of the first host.
Registered ==
    { [devices |-> <<>>, history |-> <<>>],
      Seeded(Request(<<Address(1), "Office">>, "Up",
                     [hostname |-> Nas, last_seen |-> 1,
                      device_group |-> "Server", open_ports |-> "22"])) }

InitRuns ==
    /\ \E seed \in Registered :
          /\ devices = seed.devices
          /\ history = seed.history
    /\ last = NoResponse
    /\ ConcIdle
    /\ ClsIdle
    /\ futures = [h \in Hosts |-> Pending]
    /\ collected = {}
    /\ discovered = <<>>
    /\ log = <<>>
    /\ run = "scanning"
    /\ posted = 0
    /\ pushed = 0
    /\ runs = <<{}>>

\* The work item of one address in the run that is under way.
RunWorkItem(h) ==
    /\ run = "scanning"
    /\ futures[h].kind = "pending"
    /\ \E env \in RunScenarios :
          futures' = [futures EXCEPT ![h] = discover_single(Address(h), env, Len(runs))]
    /\ UNCHANGED <<collected, discovered, log, run, posted, pushed, runs,
                   regVars, concVars, clsVars>>

\* app.py, run_discovery_job: the scheduler starts the script again; the new
\* process begins with a `discovered` of its own and an untouched registry.
run_discovery_job ==
    /\ run = "done"
    /\ Len(runs) < MaxTime
    /\ futures' = [h \in Hosts |-> Pending]
    /\ collected' = {}
    /\ discovered' = <<>>
    /\ log' = <<>>
    /\ run' = "scanning"
    /\ posted' = 0
    /\ pushed' = 0
    /\ runs' = Append(runs, {})
    /\ UNCHANGED <<regVars, concVars, clsVars>>

NextRuns ==
    \/ \E h \in Hosts : RunWorkItem(h)
    \/ \E h \in Hosts : Collect(h)
    \/ Joined
    \/ PostCreated
    \/ PostFailed
    \/ Finished
    \/ run_discovery_job

SpecRuns == InitRuns /\ [][NextRuns]_vars

\* ------------------------------------------------------------------ claims
KeyOf(row) == <<row.ip, row.site>>

HasKey(devs, ip, site) == \E i \in DOMAIN devs : KeyOf(devs[i]) = <<ip, site>>

\* The number of device_history rows of one device.
Count(hist, device_id) ==
    Cardinality({i \in DOMAIN hist : hist[i].device_id = device_id})

\* C1: the registry never holds two devices rows with the same (ip, site),
\* whatever write requests it has served.
C1_KeyUniqueness ==
    \A i, j \in DOMAIN devices : i # j => KeyOf(devices[i]) # KeyOf(devices[j])

\* One request handled from start to end on the tables db.
Handled(db, req) ==
    IF req.op = "upsert"
    THEN UpsertCommit(db.devices, db.history, req.rec,
                      SelectIdStatus(db.devices, req.rec.ip, req.rec.site),
                      req.last_seen)
    ELSE [devices |-> AddInsert(db.devices, req.rec, req.last_seen),
          history |-> AddHistory(db.history, Len(db.devices) + 1, req.rec,
                                 req.last_seen)]

RECURSIVE Serial(_, _)
\* The requests in flight handled one after another, in the order given.
Serial(db, order) ==
    IF order = <<>> THEN db
    ELSE Serial(Handled(db, reqs[Head(order)]), Tail(order))

Orders ==
    {o \in [InFlight -> InFlight] : \A i, j \in InFlight : i # j => o[i] # o[j]}

\* C2: when upserts for one (ip, site) have overlapped and all have returned,
\* the tables are what handling them one after another, in some order, gives.
C2_SameKeySerialized ==
    (/\ \A w \in InFlight : reqs[w].pc = "done" /\ reqs[w].op = "upsert"
     /\ \A v, w \in InFlight : KeyOf(reqs[v].rec) = KeyOf(reqs[w].rec))
    => \E o \in Orders :
          Serial(db0, o) = [devices |-> devices, history |-> history]

\* C3: no step lowers a device's number of history rows; an upsert that finds
\* a row whose stored status equals the body's status writes no history row;
\* one that finds a row with another status writes exactly one, for that
\* device, describing old -> new, and stores the new status.
C3_HistoryMonotonicity ==
    [][ /\ \A d \in DOMAIN devices : Count(history', d) >= Count(history, d)
        /\ (last'.op = "upsert" /\ last'.id # NoRow) =>
              LET d == last'.id
                  old == devices[d].status
                  new == last'.rec.status
              IN  IF old = new
                  THEN \A e \in DOMAIN devices' : Count(history', e) = Count(history, e)
                  ELSE /\ Len(history') = Len(history) + 1
                       /\ SubSeq(history', 1, Len(history)) = history
                       /\ history'[Len(history')].device_id = d
                       /\ history'[Len(history')].status = new
                       /\ history'[Len(history')].message =
                              <<"Status changed from ", old, " → ", new>>
                       /\ devices'[d].status = new
      ]_vars

\* C3 witness: an upsert found an existing row with another status and wrote
\* the transition.
C3_Witness ==
    /\ last.op = "upsert" /\ last.id # NoRow /\ last.added = 1
    /\ history[Len(history)].device_id = last.id
    /\ Count(history, last.id) = 2

\* C4: an upsert that repeats the body of the upsert before it (a body that
\* carries its last_seen) changes no devices row and writes no history row.
C4_Idempotence ==
    [][ (/\ last.op = "upsert" /\ last'.op = "upsert"
         /\ last'.rec = last.rec /\ last'.rec.last_seen # NoTime)
        => (devices' = devices /\ history' = history) ]_vars

\* C4 witness: the same body was upserted twice in a row.
C4_Witness ==
    /\ last.op = "upsert" /\ last.again /\ last.rec.last_seen # NoTime
    /\ last.id # NoRow /\ last.added = 0

\* C5: an upsert with an empty hostname on a row whose hostname is known
\* leaves the stored hostname as it was.
C5_HostnamePreserved ==
    [][ (/\ last'.op = "upsert" /\ last'.id # NoRow
         /\ last'.rec.hostname = NoName /\ devices[last'.id].hostname # NoName)
        => devices'[last'.id].hostname = devices[last'.id].hostname ]_vars

\* C6: an upsert whose (ip, site) no devices row has appends exactly one
\* devices row, carrying every field of the body with last_seen the body's
\* last_seen, and exactly one history row, "Device discovered", for it.
C6_CreateOnFirstSight ==
    [][ (last'.op = "upsert" /\ ~HasKey(devices, last'.rec.ip, last'.rec.site))
        => LET r == last'.rec
               d == Len(devices) + 1
           IN  /\ Len(devices') = d
               /\ SubSeq(devices', 1, Len(devices)) = devices
               /\ devices'[d].ip = r.ip /\ devices'[d].site = r.site
               /\ devices'[d].hostname = r.hostname
               /\ devices'[d].status = r.status
               /\ devices'[d].device_group = r.device_group
               /\ devices'[d].open_ports = r.open_ports
               /\ IF r.last_seen # NoTime
                  THEN devices'[d].last_seen = r.last_seen
                  ELSE devices'[d].last_seen \in Times
               /\ history' = Append(history,
                      [device_id |-> d, timestamp |-> devices'[d].last_seen,
                       status |-> r.status, message |-> <<"Device discovered">>])
      ]_vars

\* C6 witness: an upsert created a second device, beside one that has the same
\* address at another site.
C6_Witness ==
    /\ last.op = "upsert" /\ last.id = NoRow /\ last.added = 1
    /\ Len(devices) = 2
    /\ devices[1].ip = devices[2].ip /\ devices[1].site # devices[2].site
    /\ history[Len(history)].message = <<"Device discovered">>

\* The dicts of `discovered` for one address.
RecordsOf(disc, ip) == {i \in DOMAIN disc : disc[i].ip = ip}

\* How often an address is in the error log.
Logged(lg, ip) == Cardinality({i \in DOMAIN lg : lg[i] = ip})

\* C7: reading a future that holds an exception leaves the run going, adds no
\* record and logs the address once; and once every future has been read, an
\* address whose work item raised has no record and one log entry, while every
\* address whose work item returned a record has that record in `discovered`.
C7_FailureIsolation ==
    [][ /\ \A h \in Hosts :
             (h \in collected' \ collected /\ futures[h].kind = "raised")
             => /\ run' = "scanning"
                /\ discovered' = discovered
                /\ Logged(log', Address(h)) = Logged(log, Address(h)) + 1
        /\ (run' \in {"posting", "done"})
             => \A h \in Hosts :
                  /\ futures'[h].kind = "raised"
                       => /\ RecordsOf(discovered', Address(h)) = {}
                          /\ Logged(log', Address(h)) = 1
                  /\ futures'[h].kind = "record"
                       => \E i \in DOMAIN discovered' :
                             discovered'[i] = futures'[h].device
        /\ run' # "aborted"
      ]_vars

\* C7 witness: the run is over, one work item raised after its port scan and
\* the record of another address was posted.
C7_Witness ==
    /\ run = "done"
    /\ \E h \in Hosts : futures[h].kind = "raised" /\ futures[h].exc = "OSError"
    /\ \E h \in Hosts : futures[h].kind = "record"
    /\ Len(log) = 1
    /\ pushed = 1

\* C8: once the main loop has read a future that holds PermissionError, the
\* run is aborted: it neither goes on to the posting loop nor ends as a
\* completed run, and nothing is posted.
C8_PermissionDeniedIsFatal ==
    (\E h \in collected : futures[h].exc = "PermissionError")
    => (run \notin {"posting", "done"} /\ posted = 0)

RowsOf(devs, ip, site) == {i \in DOMAIN devs : KeyOf(devs[i]) = <<ip, site>>}

\* C12: when two runs have both found an address and posted its record with
\* success, the registry holds exactly one device for (address, SITE_NAME)
\* and exactly one "Device discovered" history row for it.
C12_DiscoveryFeedsUpsert ==
    \A h \in Hosts :
        (/\ run = "done"
         /\ \E r1, r2 \in DOMAIN runs :
               r1 < r2 /\ Address(h) \in runs[r1] /\ Address(h) \in runs[r2])
        => /\ Cardinality(RowsOf(devices, Address(h), SITE_NAME)) = 1
           /\ Cardinality({i \in DOMAIN history :
                    /\ history[i].device_id \in RowsOf(devices, Address(h), SITE_NAME)
                    /\ history[i].message = <<"Device discovered">>}) = 1

\* C13: a step that submits a record (successfully or not) is taken only when
\* every work item has ended and its future has been read, and the record is
\* the dict one work item returned; every devices row is such a dict, stored
\* field by field; and once the run is interrupted nothing more is submitted.
C13_JoinBeforeSubmission ==
    [][ /\ (posted' # posted \/ devices' # devices \/ history' # history)
            => /\ \A h \in Hosts : futures[h].kind # "pending"
               /\ collected = Hosts
               /\ posted' = posted + 1
               /\ \E h \in Hosts : /\ futures[h].kind = "record"
                                    /\ discovered[posted'] = futures[h].device
        /\ \A i \in DOMAIN devices' :
              \E h \in Hosts :
                 /\ futures'[h].kind = "record"
                 /\ h \in collected'
                 /\ devices'[i] = DeviceRow(futures'[h].device,
                                            futures'[h].device.last_seen)
        /\ run = "interrupted"
            => (/\ run' = "interrupted" /\ posted' = posted /\ discovered' = discovered
                /\ devices' = devices /\ history' = history)
      ]_vars

\* C13 witness: the run was interrupted before the join, after it had read
\* one record; a work item that ended afterwards returned a record too; the
\* registry is empty.
C13_Witness ==
    /\ run = "interrupted"
    /\ collected # Hosts
    /\ Len(discovered) = 1
    /\ \E h \in Hosts \ collected : futures[h].kind = "record"
    /\ posted = 0
    /\ devices = <<>> /\ history = <<>>

\* Where a primitive stands in the list of calls of a work item.
At(calls, c) == {i \in DOMAIN calls : calls[i] = c}

\* C14: the work item calls the echo check first; it calls the fallback check
\* only as its second call and only when the echo check returned false; it
\* scans ports, resolves the name and classifies only when one of the two
\* checks returned true; it returns a record exactly when one of the two
\* checks returned true and nothing raised; and every record has status Up.
C14_LivenessPipeline ==
    answer # Pending
    => LET calls == answer.calls
           primary == is_host_up_icmp(query.env.icmp)
           fallback == is_host_up_tcp(query.env.net, FALLBACK_PORTS)
           up == primary.exc = "" /\ (primary.up \/ fallback)
       IN  /\ At(calls, "icmp") = {1}
           /\ At(calls, "tcp") # {}
                => (primary.exc = "" /\ ~primary.up /\ At(calls, "tcp") = {2})
           /\ (primary.exc = "" /\ primary.up) => At(calls, "tcp") = {}
           /\ (At(calls, "scan") \cup At(calls, "dns") \cup At(calls, "classify")) # {}
                => up
           /\ answer.kind = "record" <=> (up /\ answer.kind # "raised")
           /\ answer.kind = "record"
                => (answer.device.status = "Up" /\ answer.device.ip = query.ip)

\* C14 witness: the echo request went unanswered, the fallback check found a
\* port answering, and the work item returned a record.
C14_Witness ==
    /\ answer.kind = "record"
    /\ query.env.icmp = "none"
    /\ answer.calls = <<"icmp", "tcp", "scan", "dns", "classify">>

\* C15: whatever the reverse lookup ends in, get_hostname raises nothing and
\* a host that passed the liveness check yields a record.
C15_HostnameNeverFails ==
    (answer # Pending /\ At(answer.calls, "dns") # {})
    => (get_hostname(query.env.dns).exc = "" /\ answer.kind = "record")

\* C16: whatever request is served (insert, upsert, list, lookup, history
\* query), every history row that was there is there afterwards, at its place
\* and with the same device_id, timestamp, status and message; and every
\* history row refers to a devices row, which keeps its (ip, site).
C16_HistoryAppendOnly ==
    [][ /\ Len(history') >= Len(history)
        /\ \A i \in DOMAIN history : history'[i] = history[i]
        /\ Len(devices') >= Len(devices)
        /\ \A d \in DOMAIN devices : KeyOf(devices'[d]) = KeyOf(devices[d])
        /\ \A i \in DOMAIN history' : history'[i].device_id \in DOMAIN devices'
      ]_vars

\* C16 witness: a device has its creation and a status change on record, and
\* the request served last was an upsert that changed its status once more.
C16_Witness ==
    /\ last.op = "upsert" /\ last.added = 1 /\ last.id # NoRow
    /\ Count(history, last.id) = 3
    /\ history[1].message = <<"Device discovered">>

\* The history rows of one device, with their places.
HistoryOf(hist, device_id) ==
    {<<i, hist[i]>> : i \in {j \in DOMAIN hist : hist[j].device_id = device_id}}

\* C17: no step of a run, its submissions included, removes a devices row;
\* and a devices row whose (ip, site) is not in the run's `discovered` keeps
\* every field and its history rows.
C17_AbsenceIsNotObservation ==
    [][ /\ Len(devices') >= Len(devices)
        /\ \A i \in DOMAIN devices :
              (\A k \in DOMAIN discovered : KeyOf(discovered[k]) # KeyOf(devices[i]))
              => /\ devices'[i] = devices[i]
                 /\ HistoryOf(history', i) = HistoryOf(history, i)
      ]_vars

\* C17 witness: a second run has ended that did not find an address the
\* first run had registered as Up, while it found and posted another; the
\* device of the first is still there with status Up.
C17_Witness ==
    /\ run = "done" /\ Len(runs) = 2 /\ pushed >= 1
    /\ \E h \in Hosts :
          /\ futures[h].kind = "none"
          /\ Address(h) \in runs[1]
          /\ \E i \in RowsOf(devices, Address(h), SITE_NAME) :
                devices[i].status = "Up" /\ devices[i].last_seen = 1

\* What get_history shows of a history row.
Shown(entry) ==
    [timestamp |-> entry.timestamp, status |-> entry.status, message |-> entry.message]

\* body lists the history rows of the device, each once, and no other.
ListsAll(body, hist, device_id) ==
    LET m == {i \in DOMAIN hist : hist[i].device_id = device_id}
    IN  /\ Len(body) = Cardinality(m)
        /\ \E o \in [DOMAIN body -> m] :
              /\ \A i, j \in DOMAIN body : i # j => o[i] # o[j]
              /\ \A i \in DOMAIN body : body[i] = Shown(hist[o[i]])

\* C18 as claimed: get_history answers with all history rows of the device
\* and only those, the oldest first.
C18_HistoryChronological ==
    last.op = "get_history"
    => /\ ListsAll(last.body, history, last.id)
       /\ \A i, j \in DOMAIN last.body :
             i < j => last.body[i].timestamp <= last.body[j].timestamp

\* C18 as amended: get_history answers with all history rows of the device
\* and only those, the newest timestamp first.
C18_HistoryNewestFirst ==
    last.op = "get_history"
    => /\ last.code = 200
       /\ ListsAll(last.body, history, last.id)
       /\ \A i, j \in DOMAIN last.body :
             i < j => last.body[i].timestamp >= last.body[j].timestamp

\* C18 witness: the history of a device that was created, changed status
\* later and changed back with an earlier last_seen was answered with the
\* latest timestamp first.
C18_Witness ==
    /\ last.op = "get_history"
    /\ Len(last.body) = 3
    /\ last.body[1].timestamp > last.body[2].timestamp
    /\ last.body[1] = Shown(history[2])

\* The history rows of one device in the order they were appended.
Entries(hist, device_id) == SelectSeq(hist, LAMBDA e : e.device_id = device_id)

\* C19: whenever another connection may look at the tables (between requests
\* and between the commits of one request), every devices row has a history
\* row, and the first of them records its creation.
C19_EveryDeviceHasHistory ==
    \A d \in DOMAIN devices :
        /\ Entries(history, d) # <<>>
        /\ Entries(history, d)[1].message
              \in {<<"Device discovered">>, <<"Device added manually">>}

\* C20: with the write requests served one at a time, the status of every
\* devices row is the status of the history row appended last for it.
C20_StatusAgreesWithHistory ==
    \A d \in DOMAIN devices :
        /\ Entries(history, d) # <<>>
        /\ devices[d].status = Entries(history, d)[Len(Entries(history, d))].status

\* C20 witness: a device that add_device had duplicated was upserted to
\* another status; the row the upsert found carries the new status and the
\* transition, the other row its own.
C20_Witness ==
    /\ Len(devices) = 2 /\ KeyOf(devices[1]) = KeyOf(devices[2])
    /\ last.op = "upsert" /\ last.id = 1 /\ last.added = 1
    /\ devices[1].status # devices[2].status
    /\ Len(Entries(history, 1)) = 2

\* The rule order of the classifier, as the specification words it.
HasPort(q, p) == \E i \in DOMAIN q.open_ports : q.open_ports[i] = p

\* The hostname holds word (given in lower case) when case is ignored.
HasWord(q, word) ==
    /\ ~q.hostname.none
    /\ \E off \in 0..Len(q.hostname.s) :
          /\ off + Len(word) <= Len(q.hostname.s)
          /\ \A k \in DOMAIN word :
               \/ q.hostname.s[off + k] = word[k]
               \/ LowerChar(q.hostname.s[off + k]) = word[k]

Expected(q) ==
    IF HasPort(q, 161) THEN "Switch/Network"
    ELSE IF HasPort(q, 5060) \/ HasPort(q, 5061) THEN "VOIP"
    ELSE IF \/ HasPort(q, 22)
            \/ HasWord(q, <<"s", "e", "r", "v", "e", "r">>)
            \/ HasWord(q, <<"w", "e", "b">>) THEN "Server"
    ELSE IF HasPort(q, 80) \/ HasPort(q, 443) \/ HasPort(q, 8080) THEN "Web/HTTP"
    ELSE "Unknown"

\* C9: categorize_device returns one of the five categories, the one of the
\* first rule that matches: 161; 5060 or 5061; 22 or a hostname holding
\* "server" or "web" in any case; 80, 443 or 8080; Unknown.
C9_ClassifierRuleOrder ==
    answer # ""
    => /\ answer \in {"Switch/Network", "VOIP", "Server", "Web/HTTP", "Unknown"}
       /\ answer = Expected(query)

\* C9 witness: with no deciding port open, a hostname written in mixed case
\* that holds "web" was classified Server although 80 is open.
C9_Witness ==
    /\ answer = "Server"
    /\ query.open_ports = <<80>>
    /\ query.hostname = Str(<<"C", "a", "m", "W", "e", "B">>)

\* C10: a lookup of a device id that has no row answers 404; a history query
\* for an id with no history rows (a known or an unknown id) answers 200 with
\* an empty list; neither changes a table.
C10_NotFoundOutcomes ==
    [][ /\ (last'.op = "get_device" /\ last'.id \notin DOMAIN devices)
            => last'.code = 404
        /\ (last'.op = "get_history" /\ Count(history, last'.id) = 0)
            => (last'.code = 200 /\ last'.body = <<>>)
        /\ last'.op \in {"get_device", "get_history"}
            => (devices' = devices /\ history' = history)
      ]_vars

\* C10 witness: with devices in the registry, a lookup of an unknown id was
\* answered 404.
C10_Witness ==
    /\ last.op = "get_device" /\ last.code = 404
    /\ devices # <<>> /\ last.id \notin DOMAIN devices
====
